---- MODULE Spec2Model ----
(***************************************************************************)
(* Model of the pull-request review reporter.                              *)
(*                                                                         *)
(* The repository has two entry points: main.py (which imports the classes *)
(* of lib/) and the self-contained github_copilot_reviewer.py.  Both poll  *)
(* the source host for the open pull requests of the configured            *)
(* repositories, reduce the review events of each pull request and send    *)
(* one report to a chat webhook.                                           *)
(*                                                                         *)
(* Strings that the code compares or sorts (repository keys, timestamps)   *)
(* are sequences of character codes, compared as Python compares str.      *)
(* One action is one step of the single thread: one HTTP attempt of        *)
(* _make_request together with everything the caller does until the next   *)
(* HTTP attempt.                                                           *)
(*                                                                         *)
(* GithubManager._make_request, get_reviewer_status and the body of        *)
(* SlackNotifier.send_pr_info are the same code in lib/ and in             *)
(* github_copilot_reviewer.py, except that the entries of lib/ carry an    *)
(* icon and its report message names a sender.                             *)
(***************************************************************************)
EXTENDS Integers, Sequences, FiniteSets, TLC

VARIABLES
    entry,          \* which program runs: "main", "copilot", or a direct call "send_pr_info"
    github_token,   \* TRUE iff GITHUB_TOKEN is set and non-empty
    webhook_url,    \* TRUE iff SLACK_WEBHOOK_URL is set and non-empty
    repos,          \* result of parse_repos(): <<owner, repo, icon>> (main.py), <<owner, repo>> (copilot)
    pc,             \* position of the single thread
    i,              \* index into repos of the repository being processed
    j,              \* index of the pull request being processed in the current loop
    pull_requests,  \* main(): the list fetched for the current repository
    all_prs,        \* main(): accumulated <<owner, repo, pr, icon>>; the prs argument of send_pr_info
    rq,             \* _make_request: the call in progress, or the last completed call
    k,              \* send_pr_info: index into the sorted repository keys
    ready_prs,      \* send_pr_info: ready_prs of the current repository
    pending_prs,    \* send_pr_info: pending_prs of the current repository
    counts,         \* send_pr_info: the approval_count computed for each partitioned pull request
    blocks,         \* send_pr_info: the blocks of the message built so far
    posted,         \* the messages POSTed to the webhook, in order
    webhook,        \* the answers of the webhook to these POSTs, in order
    sent,           \* return value of send_pr_info: "none", "true", "false"
    checked,        \* repository indices logged by "Checking repository"
    errors,         \* repository indices logged by "Error processing repository"
    listed,         \* per processed repository index: the outcome of its pull-request list call
    exc,            \* the exception that left the entry point unhandled, or "none"
    reviews,        \* get_reviewer_status on its own: the review events it is given
    reduced,        \* get_reviewer_status on its own: the value returned, or the initial value
    fmt,            \* _format_reviewers on its own: its arguments and the value returned
    environ,        \* os.environ: GITHUB_REPOS, GITHUB_OWNER, GITHUB_REPO
    parsed          \* the outcome of the configuration parser: exception or list

vars == <<entry, github_token, webhook_url, repos, pc, i, j, pull_requests, all_prs, rq,
          k, ready_prs, pending_prs, counts, blocks, posted, webhook, sent, checked,
          errors, listed, exc, reviews, reduced, fmt, environ, parsed>>

-----------------------------------------------------------------------------
(* Bounds of the model *)

MaxRepos == 2
MaxPRs == 2
MaxRunReviews == 2
MaxReviews == 3
MaxDirect == 1
MaxRequested == 2
MaxEntries == 2

-----------------------------------------------------------------------------
(* Strings as sequences of character codes; Python's str comparison *)

RECURSIVE StrLess(_, _)
StrLess(a, b) ==
    IF a = <<>> THEN b /= <<>>
    ELSE IF b = <<>> THEN FALSE
    ELSE IF a[1] /= b[1] THEN a[1] < b[1]
    ELSE StrLess(Tail(a), Tail(b))

StrGreater(a, b) == StrLess(b, a)

\* "a", "b", "x", "y"
Owners == {<<97>>, <<98>>}
RepoOf(owner) == IF owner = <<97>> THEN <<120>> ELSE <<121>>
RepoRefs == {<<o, RepoOf(o)>> : o \in Owners}

\* ":a:", ":b:"; the entries of github_copilot_reviewer.py carry no icon
Icons == {<<58, 97, 58>>, <<58, 98, 58>>}
NoIcon == <<>>

\* "alice", "bob" abbreviated to their first letters
Logins == {<<97>>, <<98>>}

\* timestamps "1", "10", "2": lexical order differs from numeric order
Timestamps == {<<49>>, <<49, 48>>, <<50>>}

SeqsUpTo(S, n) == UNION {[1..m -> S] : m \in 0..n}

NoDup(s) == \A a, b \in DOMAIN s : a /= b => s[a] /= s[b]

-----------------------------------------------------------------------------
(* Review Reducer: GithubManager.get_reviewer_status *)

ReviewStates == {"APPROVED", "CHANGES_REQUESTED", "COMMENTED"}

ReviewEvents == [user : Logins, state : ReviewStates, submitted_at : Timestamps]

EmptyStatus == [u \in {} |-> [state |-> "", submitted_at |-> <<>>]]

CountsAsApprovalDistinct(state, reviewer, reviewer_status) ==
    state = "APPROVED" /\ reviewer \notin DOMAIN reviewer_status

CountsAsApproval(state, reviewer, reviewer_status) == state = "APPROVED"

IsNewerOrEqual(review, reviewer_status) ==
    \/ review.user \notin DOMAIN reviewer_status
    \/ ~StrLess(review.submitted_at, reviewer_status[review.user].submitted_at)

IsNewer(review, reviewer_status) ==
    \/ review.user \notin DOMAIN reviewer_status
    \/ StrGreater(review.submitted_at, reviewer_status[review.user].submitted_at)

\* the state of the loop of get_reviewer_status after its first n iterations
RECURSIVE ReduceReviews(_, _)
ReduceReviews(rs, n) ==
    IF n = 0 THEN [reviewer_status |-> EmptyStatus, approval_count |-> 0]
    ELSE LET prev == ReduceReviews(rs, n - 1)
             review == rs[n]
             st == prev.reviewer_status
             cnt == IF CountsAsApproval(review.state, review.user, st)
                    THEN prev.approval_count + 1
                    ELSE prev.approval_count
             new == IF IsNewer(review, st)
                    THEN [u \in DOMAIN st \cup {review.user} |->
                            IF u = review.user
                            THEN [state |-> review.state, submitted_at |-> review.submitted_at]
                            ELSE st[u]]
                    ELSE st
         IN [reviewer_status |-> new, approval_count |-> cnt]

get_reviewer_status(rs) == ReduceReviews(rs, Len(rs))

-----------------------------------------------------------------------------
(* HTTP Retry Client: GithubManager._make_request *)

max_retries == 3
retry_delay == 5

\* what one HTTP attempt can do: a 2xx response with a body, a transport
\* failure (ConnectionError) or a non-2xx status (HTTPError from raise_for_status)
Failures == {"ConnectionError", "HTTPError"}

Success(body) == [ok |-> TRUE, err |-> "", body |-> body]
Failure(e) == [ok |-> FALSE, err |-> e, body |-> <<>>]

NoResult == [ok |-> FALSE, err |-> "", body |-> <<>>]

IdleRq == [status |-> "idle", attempt |-> 0, sleeps |-> <<>>, outcomes |-> <<>>,
           result |-> NoResult]

RetryDelayNoOffset(attempt) == retry_delay * attempt

RetryDelay(attempt) == retry_delay * (attempt + 1)

IsLastAttemptOffByOne(attempt) == attempt = max_retries - 2

IsLastAttempt(attempt) == attempt = max_retries - 1

\* One iteration of the loop of _make_request, on the call r in progress (a
\* call that is not active starts a new one at attempt 0) with outcome o of
\* requests.request + raise_for_status.
MakeRequestStep(r, o) ==
    LET cur == IF r.status = "active" THEN r ELSE [IdleRq EXCEPT !.status = "active"]
        outs == Append(cur.outcomes, o)
    IN IF o.ok
       THEN [cur EXCEPT !.status = "returned", !.outcomes = outs, !.result = o]
       ELSE IF IsLastAttempt(cur.attempt)
            THEN [cur EXCEPT !.status = "raised", !.outcomes = outs, !.result = o]
            ELSE [cur EXCEPT !.attempt = cur.attempt + 1,
                             !.outcomes = outs,
                             !.sleeps = Append(cur.sleeps, RetryDelay(cur.attempt))]

\* What the program itself keeps of a call between two attempts within a run:
\* the loop variable attempt.  The locals of a call that returned or raised
\* are gone; the delays slept and the earlier outcomes are kept nowhere.
Frame(r) ==
    IF r.status = "active"
    THEN [IdleRq EXCEPT !.status = "active", !.attempt = r.attempt]
    ELSE IdleRq

-----------------------------------------------------------------------------
(* Source Host Client: what the host can answer *)

PullRequests == [number : 1..MaxPRs]

NoPr == [number |-> 0]

\* GET /repos/{owner}/{repo}/pulls
PullsAnswers == {s \in SeqsUpTo(PullRequests, MaxPRs) : NoDup(s)}

\* GET /repos/{owner}/{repo}/pulls/{number}/reviews, as answered during a run
RunEvents == {[user |-> <<97>>, state |-> "APPROVED", submitted_at |-> <<49>>],
              [user |-> <<98>>, state |-> "COMMENTED", submitted_at |-> <<49>>]}
ReviewsAnswers == SeqsUpTo(RunEvents, MaxRunReviews)

\* the same call on its own, with any review events in the answer
AnyReviewsAnswers == SeqsUpTo(ReviewEvents, MaxRunReviews)

PullsOutcomes == {Success(b) : b \in PullsAnswers} \cup {Failure(e) : e \in Failures}
AnyReviewsOutcomes == {Success(b) : b \in AnyReviewsAnswers} \cup {Failure(e) : e \in Failures}
ReviewsOutcomes == {Success(b) : b \in ReviewsAnswers} \cup {Failure(e) : e \in Failures}

-----------------------------------------------------------------------------
(* Report Renderer: SlackNotifier.send_pr_info and _create_pr_block *)

\* f"{owner}/{repo}"
Key(owner, repo) == owner \o <<47>> \o repo

KeysOf(prs) == {Key(prs[n][1], prs[n][2]) : n \in DOMAIN prs}

\* sorted(repos.items()): the keys of the dict are distinct, so the order is
\* the order of the keys
RECURSIVE SortKeys(_)
SortKeys(S) ==
    IF S = {} THEN <<>>
    ELSE LET m == CHOOSE x \in S : \A y \in S : x = y \/ StrLess(x, y)
         IN <<m>> \o SortKeys(S \ {m})

SortedKeysDescending(prs) ==
    LET s == SortKeys(KeysOf(prs)) IN [n \in DOMAIN s |-> s[Len(s) + 1 - n]]

SortedKeys(prs) == SortKeys(KeysOf(prs))

\* repos[key]: the entries of prs with that key, in the order of prs
Group(prs, key) == SelectSeq(prs, LAMBDA e : Key(e[1], e[2]) = key)

Block(kind, key, pr, total, icon) ==
    [kind |-> kind, key |-> key, pr |-> pr, total |-> total, icon |-> icon]

NoPrsBlock == Block("no_prs", <<>>, NoPr, 0, NoIcon)
Header(n) == Block("header", <<>>, NoPr, n, NoIcon)
Divider == Block("divider", <<>>, NoPr, 0, NoIcon)
\* the icon of a repository is the icon of the first of its entries
RepoSection(prs, key) == Block("repository", key, NoPr, 0, Group(prs, key)[1][4])
ReadyHeading == Block("ready_heading", <<>>, NoPr, 0, NoIcon)
PendingHeading == Block("pending_heading", <<>>, NoPr, 0, NoIcon)
NoneBlock == Block("none", <<>>, NoPr, 0, NoIcon)

\* the JSON body POSTed: lib/slack_notifier.py names the sender of a report,
\* github_copilot_reviewer.py sends the blocks alone
Message(e, bl) ==
    [username |-> IF e = "copilot" \/ bl = <<NoPrsBlock>> THEN "" ELSE "PR help help",
     blocks |-> bl]

\* send_pr_info: "if approval_count >= 2" of the split into ready and pending
IsReadyStrict(approval_count) == approval_count > 2

IsReady(approval_count) == approval_count >= 2

\* _create_pr_block: "ready_for_merge = approval_count >= 2"
ReadyForMerge(approval_count) == approval_count >= 2

\* _create_pr_block, given the reviews its own fetch returned
create_pr_block(e, rs) ==
    LET st == get_reviewer_status(rs)
    IN IF ReadyForMerge(st.approval_count)
       THEN Block("compact", Key(e[1], e[2]), e[3], 0, NoIcon)
       ELSE Block("expanded", Key(e[1], e[2]), e[3], 0, NoIcon)

\* The control state of send_pr_info between two HTTP calls.
Render(p, kk, jj, rd, pd, bl) ==
    [pc |-> p, k |-> kk, j |-> jj, ready_prs |-> rd, pending_prs |-> pd, blocks |-> bl]

\* top of the loop over sorted(repos.items())
EnterRepo(prs, kk, bl, rd, pd) ==
    IF kk > Len(SortedKeys(prs))
    THEN Render("post", kk, 0, rd, pd, bl)
    ELSE Render("partition", kk, 1, <<>>, <<>>, Append(bl, RepoSection(prs, SortedKeys(prs)[kk])))

AfterPending(prs, kk, bl, rd, pd) == EnterRepo(prs, kk + 1, Append(bl, Divider), rd, pd)

AfterReady(prs, kk, bl, rd, pd) ==
    LET b2 == Append(bl, PendingHeading)
    IN IF pd /= <<>>
       THEN Render("pending", kk, 1, rd, pd, b2)
       ELSE AfterPending(prs, kk, Append(b2, NoneBlock), rd, pd)

AfterPartition(prs, kk, bl, rd, pd) ==
    LET b1 == Append(bl, ReadyHeading)
    IN IF rd /= <<>>
       THEN Render("ready", kk, 1, rd, pd, b1)
       ELSE AfterReady(prs, kk, Append(b1, NoneBlock), rd, pd)

\* entry of send_pr_info up to its first HTTP call
BeginSend(prs) ==
    IF prs = <<>>
    THEN Render("post", 0, 0, <<>>, <<>>, <<NoPrsBlock>>)
    ELSE EnterRepo(prs, 1, <<Header(Len(prs)), Divider>>, <<>>, <<>>)

-----------------------------------------------------------------------------
(* Report Renderer: get_review_status_emoji and SlackNotifier._format_reviewers *)

get_review_status_emoji(state) ==
    CASE state = "APPROVED" -> ":white_check_mark:"
      [] state = "CHANGES_REQUESTED" -> ":x:"
      [] state = "COMMENTED" -> ":speech_balloon:"
      [] state = "PENDING" -> ":hourglass:"
      [] state = "DISMISSED" -> ":no_entry:"
      [] OTHER -> ":white_circle:"

\* the sort key "(0 if x in requested_names else 1, x)", compared as tuples
SortKeyLessNameOnly(x, y, requested_names) == StrLess(x, y)

SortKeyLess(x, y, requested_names) ==
    LET rx == IF x \in requested_names THEN 0 ELSE 1
        ry == IF y \in requested_names THEN 0 ELSE 1
    IN rx < ry \/ (rx = ry /\ StrLess(x, y))

RECURSIVE SortReviewers(_, _)
SortReviewers(S, requested_names) ==
    IF S = {} THEN <<>>
    ELSE LET m == CHOOSE x \in S : \A y \in S : x = y \/ SortKeyLess(x, y, requested_names)
         IN <<m>> \o SortReviewers(S \ {m}, requested_names)

\* reviewer_status.get(reviewer_name, {}).get('state', 'PENDING')
StatusOf(reviewer_name, reviewer_status) ==
    IF reviewer_name \in DOMAIN reviewer_status
    THEN reviewer_status[reviewer_name].state
    ELSE "PENDING"

\* The value returned: the lines "• <login> <emoji>" that are joined with
\* newlines, or the literal text returned when there is no line.
format_reviewers(requested_reviewers, reviewer_status) ==
    LET requested_names == {requested_reviewers[n].login : n \in DOMAIN requested_reviewers}
        all_reviewers == requested_names \cup DOMAIN reviewer_status
        sorted_reviewers == SortReviewers(all_reviewers, requested_names)
        reviewer_texts ==
            [n \in DOMAIN sorted_reviewers |->
                [login |-> sorted_reviewers[n],
                 emoji |-> get_review_status_emoji(
                              StatusOf(sorted_reviewers[n], reviewer_status))]]
    IN [lines |-> reviewer_texts,
        literal |-> IF reviewer_texts = <<>> THEN "No reviewers assigned" ELSE ""]

NoFmt == [requested_reviewers |-> <<>>, reviewer_status |-> EmptyStatus,
          out |-> [lines |-> <<>>, literal |-> ""]]

-----------------------------------------------------------------------------
(* Python str operations used by the configuration parsers *)

\* the characters str.strip() removes (str.isspace), up to U+00A0
PyWhitespace == {9, 10, 11, 12, 13, 28, 29, 30, 31, 32, 133, 160}

RECURSIVE LStrip(_)
LStrip(s) == IF s /= <<>> /\ Head(s) \in PyWhitespace THEN LStrip(Tail(s)) ELSE s

RECURSIVE RStrip(_)
RStrip(s) ==
    IF s /= <<>> /\ s[Len(s)] \in PyWhitespace THEN RStrip(SubSeq(s, 1, Len(s) - 1)) ELSE s

\* s.strip()
Strip(s) == RStrip(LStrip(s))

\* c in s, for a single character c
Contains(s, c) == \E n \in DOMAIN s : s[n] = c

\* s.split(c), for a single character c
RECURSIVE Split(_, _)
Split(s, c) ==
    IF ~Contains(s, c) THEN <<s>>
    ELSE LET n == CHOOSE m \in DOMAIN s : s[m] = c /\ \A l \in 1..(m - 1) : s[l] /= c
         IN <<SubSeq(s, 1, n - 1)>> \o Split(SubSeq(s, n + 1, Len(s)), c)

\* s.encode('utf-8').decode('utf-8-sig'): one leading U+FEFF is dropped
DecodeUtf8Sig(s) == IF s /= <<>> /\ Head(s) = 65279 THEN Tail(s) ELSE s

-----------------------------------------------------------------------------
(* json.loads, for documents without escape, fraction or exponent *)

\* the Python values json.loads returns; a dict is the sequence of its
\* (key, value) members in document order
JStr(cs) == [t |-> "str", s |-> cs, items |-> <<>>]
JNum(cs) == [t |-> "int", s |-> cs, items |-> <<>>]
JLit(cs) == [t |-> "literal", s |-> cs, items |-> <<>>]
JList(items) == [t |-> "list", s |-> <<>>, items |-> items]
JDict(items) == [t |-> "dict", s |-> <<>>, items |-> items]

Decoded(v, p) == [ok |-> TRUE, v |-> v, p |-> p]
DecodeError == [ok |-> FALSE, v |-> JLit(<<>>), p |-> 0]

\* the whitespace of the JSON grammar: space, tab, line feed, carriage return
JsonWhitespace == {32, 9, 10, 13}

Digits == 48..57

RECURSIVE SkipWs(_, _)
SkipWs(s, p) == IF p <= Len(s) /\ s[p] \in JsonWhitespace THEN SkipWs(s, p + 1) ELSE p

\* the position of the quote that closes the string whose text starts at p,
\* or 0 when the string is not terminated
RECURSIVE StringEnd(_, _)
StringEnd(s, p) ==
    IF p > Len(s) THEN 0
    ELSE IF s[p] = 34 THEN p
    ELSE StringEnd(s, p + 1)

RECURSIVE DigitsEnd(_, _)
DigitsEnd(s, p) == IF p <= Len(s) /\ s[p] \in Digits THEN DigitsEnd(s, p + 1) ELSE p

HasPrefixAt(s, p, w) == p + Len(w) - 1 <= Len(s) /\ SubSeq(s, p, p + Len(w) - 1) = w

\* "true", "false", "null"
JsonLiterals == {<<116, 114, 117, 101>>, <<102, 97, 108, 115, 101>>, <<110, 117, 108, 108>>}

ParseString(s, p) ==
    LET e == StringEnd(s, p + 1)
    IN IF e = 0 THEN DecodeError ELSE Decoded(JStr(SubSeq(s, p + 1, e - 1)), e + 1)

\* -?(0|[1-9][0-9]*)
ParseNumber(s, p) ==
    LET d == IF s[p] = 45 THEN p + 1 ELSE p
        e == IF d <= Len(s) /\ s[d] = 48 THEN d + 1 ELSE DigitsEnd(s, d)
    IN IF e = d THEN DecodeError ELSE Decoded(JNum(SubSeq(s, p, e - 1)), e)

ParseLiteral(s, p) ==
    IF \E w \in JsonLiterals : HasPrefixAt(s, p, w)
    THEN LET w == CHOOSE w \in JsonLiterals : HasPrefixAt(s, p, w)
         IN Decoded(JLit(w), p + Len(w))
    ELSE DecodeError

RECURSIVE ParseValue(_, _)
RECURSIVE ParseElements(_, _, _)
RECURSIVE ParseMembers(_, _, _)

\* the value that starts at position p
ParseValue(s, p) ==
    IF p > Len(s) THEN DecodeError
    ELSE IF s[p] = 34 THEN ParseString(s, p)
    ELSE IF s[p] = 91
         THEN LET q == SkipWs(s, p + 1)
              IN IF q <= Len(s) /\ s[q] = 93 THEN Decoded(JList(<<>>), q + 1)
                 ELSE ParseElements(s, q, <<>>)
    ELSE IF s[p] = 123
         THEN LET q == SkipWs(s, p + 1)
              IN IF q <= Len(s) /\ s[q] = 125 THEN Decoded(JDict(<<>>), q + 1)
                 ELSE ParseMembers(s, q, <<>>)
    ELSE IF s[p] = 45 \/ s[p] \in Digits THEN ParseNumber(s, p)
    ELSE ParseLiteral(s, p)

\* the elements of an array from position p on, up to its "]"
ParseElements(s, p, acc) ==
    LET r == ParseValue(s, p)
        q == SkipWs(s, r.p)
    IN IF ~r.ok \/ q > Len(s) THEN DecodeError
       ELSE IF s[q] = 44 THEN ParseElements(s, SkipWs(s, q + 1), Append(acc, r.v))
       ELSE IF s[q] = 93 THEN Decoded(JList(Append(acc, r.v)), q + 1)
       ELSE DecodeError

\* the members of an object from position p on, up to its "}"
ParseMembers(s, p, acc) ==
    IF p > Len(s) \/ s[p] /= 34 THEN DecodeError
    ELSE LET key == ParseString(s, p)
             c == SkipWs(s, key.p)
         IN IF ~key.ok \/ c > Len(s) \/ s[c] /= 58 THEN DecodeError
            ELSE LET r == ParseValue(s, SkipWs(s, c + 1))
                     q == SkipWs(s, r.p)
                 IN IF ~r.ok \/ q > Len(s) THEN DecodeError
                    ELSE IF s[q] = 44
                         THEN ParseMembers(s, SkipWs(s, q + 1), Append(acc, <<key.v.s, r.v>>))
                    ELSE IF s[q] = 125
                         THEN Decoded(JDict(Append(acc, <<key.v.s, r.v>>)), q + 1)
                    ELSE DecodeError

\* json.loads(s): ok is FALSE for json.JSONDecodeError
JsonLoads(s) ==
    LET r == ParseValue(s, SkipWs(s, 1))
    IN IF r.ok /\ SkipWs(s, r.p) = Len(s) + 1 THEN r ELSE DecodeError

\* k in r, for a dict r
HasKey(r, key) == \E n \in DOMAIN r.items : r.items[n][1] = key

\* r[k], for a dict r that has the key: the last member with that key
Lookup(r, key) ==
    LET n == CHOOSE m \in DOMAIN r.items :
                /\ r.items[m][1] = key
                /\ \A l \in (m + 1)..Len(r.items) : r.items[l][1] /= key
    IN r.items[n][2]

-----------------------------------------------------------------------------
(* Configuration Parser: GithubManager._parse_repos and parse_repos of main.py *)

\* os.getenv(name): None when the variable is not set, else its text
Unset == [set |-> FALSE, val |-> <<>>]
Set(val) == [set |-> TRUE, val |-> val]

NoEnviron == [GITHUB_REPOS |-> Unset, GITHUB_OWNER |-> Unset, GITHUB_REPO |-> Unset]

\* what a parser call does: it returns a list, or raises
Returned(list) == [raised |-> "none", repos |-> list]
Raised(e) == [raised |-> e, repos |-> <<>>]
NotParsed == [raised |-> "none", repos |-> <<>>]

\* "owner", "repo", "icon"
RequiredKeys ==
    {<<111, 119, 110, 101, 114>>, <<114, 101, 112, 111>>, <<105, 99, 111, 110>>}

\* (r['owner'], r['repo'], r['icon'])
TripleOf(r) ==
    <<Lookup(r, <<111, 119, 110, 101, 114>>), Lookup(r, <<114, 101, 112, 111>>),
      Lookup(r, <<105, 99, 111, 110>>)>>

\* _parse_repos: an entry that is a dict with all the required keys
IsValidEntry(r) == r.t = "dict" /\ \A key \in RequiredKeys : HasKey(r, key)

\* owner, repo, icon = repo_str.strip().split('/')
SegmentParts(repo_str) == Split(Strip(repo_str), 47)

SegmentTriple(repo_str) ==
    LET parts == SegmentParts(repo_str) IN <<JStr(parts[1]), JStr(parts[2]), JStr(parts[3])>>

\* _parse_repos, except clause: the segments with a "/" that split into three
\* parts; the ValueError of the others is caught and the segment is skipped
DelimiterParse(repos_str) ==
    LET segments == SelectSeq(Split(repos_str, 44),
                              LAMBDA g : Contains(g, 47) /\ Len(SegmentParts(g)) = 3)
    IN Returned([n \in DOMAIN segments |-> SegmentTriple(segments[n])])

\* _parse_repos, "else" of "if isinstance(repos, list)"
NotAListFallsThrough(repos_str) == DelimiterParse(repos_str)

NotAList(repos_str) == Returned(<<>>)

\* GithubManager._parse_repos(repos_str) of lib/github_manager.py
lib_parse_repos(repos_str) ==
    IF ~repos_str.set \/ repos_str.val = <<>> THEN Returned(<<>>)
    ELSE LET text == DecodeUtf8Sig(Strip(repos_str.val))
             doc == JsonLoads(text)
         IN IF ~doc.ok THEN DelimiterParse(text)
            ELSE IF doc.v.t = "list"
                 THEN LET valid == SelectSeq(doc.v.items, IsValidEntry)
                      IN Returned([n \in DOMAIN valid |-> TripleOf(valid[n])])
            ELSE NotAList(text)

\* what (r['owner'], r['repo'], r['icon']) raises for an entry r
EntryError(r) ==
    IF r.t /= "dict" THEN "TypeError"
    ELSE IF \A key \in RequiredKeys : HasKey(r, key) THEN "none"
    ELSE "KeyError"

\* parse_repos of main.py, except clause: a segment with a "/" that does not
\* split into three parts raises ValueError, which nothing catches
DelimiterParseMain(repos_str) ==
    LET segments == SelectSeq(Split(repos_str, 44), LAMBDA g : Contains(g, 47))
    IN IF \E n \in DOMAIN segments : Len(SegmentParts(segments[n])) /= 3
       THEN Raised("ValueError")
       ELSE Returned([n \in DOMAIN segments |-> SegmentTriple(segments[n])])

\* parse_repos() of main.py, for the value of GITHUB_REPOS; json.loads(None)
\* raises TypeError
parse_repos(repos_str) ==
    IF ~repos_str.set THEN Raised("TypeError")
    ELSE LET doc == JsonLoads(repos_str.val)
         IN IF ~doc.ok THEN DelimiterParseMain(repos_str.val)
            ELSE IF doc.v.t = "list"
                 THEN LET items == doc.v.items
                      IN IF \E n \in DOMAIN items : EntryError(items[n]) /= "none"
                         THEN LET first == CHOOSE n \in DOMAIN items :
                                              /\ EntryError(items[n]) /= "none"
                                              /\ \A m \in 1..(n - 1) :
                                                    EntryError(items[m]) = "none"
                              IN Raised(EntryError(items[first]))
                         ELSE Returned([n \in DOMAIN items |-> TripleOf(items[n])])
            ELSE Returned(<<>>)

-----------------------------------------------------------------------------
(* Configuration Parser: parse_repos of github_copilot_reviewer.py *)

\* "if owner and repo", "if not repos_str": None and "" are false
IsTruthy(x) == x.set /\ x.val /= <<>>

\* (r['owner'], r['repo'])
PairOf(r) == <<Lookup(r, <<111, 119, 110, 101, 114>>), Lookup(r, <<114, 101, 112, 111>>)>>

\* what (r['owner'], r['repo']) raises for an entry r
PairError(r) ==
    IF r.t /= "dict" THEN "TypeError"
    ELSE IF HasKey(r, <<111, 119, 110, 101, 114>>) /\ HasKey(r, <<114, 101, 112, 111>>)
    THEN "none"
    ELSE "KeyError"

\* repos.items() of a decoded object: one item per distinct key, in the order
\* of the first occurrences, with the value of the last occurrence
DictItems(r) ==
    LET firsts == SelectSeq([n \in DOMAIN r.items |-> [n |-> n, key |-> r.items[n][1]]],
                            LAMBDA x : \A m \in 1..(x.n - 1) : r.items[m][1] /= x.key)
    IN [n \in DOMAIN firsts |-> <<firsts[n].key, Lookup(r, firsts[n].key)>>]

\* "for repo in repos_list": the elements of a list, the characters of a str,
\* the keys of a dict; a number, a boolean and None are not iterable
IsIterable(v) == v.t \in {"list", "str", "dict"}

Iterate(v) ==
    CASE v.t = "list" -> v.items
      [] v.t = "str" -> [n \in DOMAIN v.s |-> JStr(<<v.s[n]>>)]
      [] v.t = "dict" -> LET its == DictItems(v) IN [n \in DOMAIN its |-> JStr(its[n][1])]

\* [(owner, repo) for owner, repos_list in items for repo in repos_list]
RECURSIVE OwnerRepoPairs(_)
OwnerRepoPairs(items) ==
    IF items = <<>> THEN <<>>
    ELSE LET repos_list == Iterate(items[1][2])
         IN [n \in DOMAIN repos_list |-> <<JStr(items[1][1]), repos_list[n]>>]
                \o OwnerRepoPairs(Tail(items))

\* except clause: "owner, repo = repo_str.strip().split('/')" raises
\* ValueError for a segment that has not two parts, and nothing catches it
DelimiterParseCopilot(repos_str) ==
    LET segments == SelectSeq(Split(repos_str, 44), LAMBDA g : Contains(g, 47))
    IN IF \E n \in DOMAIN segments : Len(SegmentParts(segments[n])) /= 2
       THEN Raised("ValueError")
       ELSE Returned([n \in DOMAIN segments |->
                        <<JStr(SegmentParts(segments[n])[1]), JStr(SegmentParts(segments[n])[2])>>])

\* parse_repos() of github_copilot_reviewer.py
copilot_parse_repos(env) ==
    IF ~IsTruthy(env.GITHUB_REPOS)
    THEN IF IsTruthy(env.GITHUB_OWNER) /\ IsTruthy(env.GITHUB_REPO)
         THEN Returned(<<<<JStr(env.GITHUB_OWNER.val), JStr(env.GITHUB_REPO.val)>>>>)
         ELSE Returned(<<>>)
    ELSE LET doc == JsonLoads(env.GITHUB_REPOS.val)
         IN IF ~doc.ok THEN DelimiterParseCopilot(env.GITHUB_REPOS.val)
            ELSE IF doc.v.t = "list"
                 THEN LET items == doc.v.items
                      IN IF \E n \in DOMAIN items : PairError(items[n]) /= "none"
                         THEN LET first == CHOOSE n \in DOMAIN items :
                                              /\ PairError(items[n]) /= "none"
                                              /\ \A m \in 1..(n - 1) :
                                                    PairError(items[m]) = "none"
                              IN Raised(PairError(items[first]))
                         ELSE Returned([n \in DOMAIN items |-> PairOf(items[n])])
            ELSE IF doc.v.t = "dict"
                 THEN IF \E n \in DOMAIN DictItems(doc.v) : ~IsIterable(DictItems(doc.v)[n][2])
                      THEN Raised("TypeError")
                      ELSE Returned(OwnerRepoPairs(DictItems(doc.v)))
            ELSE Returned(<<>>)

-----------------------------------------------------------------------------
(* Orchestrator: main() *)

Pending == [status |-> "pending", prs |-> <<>>]

SetRender(R) ==
    /\ pc' = R.pc
    /\ k' = R.k
    /\ j' = R.j
    /\ ready_prs' = R.ready_prs
    /\ pending_prs' = R.pending_prs
    /\ blocks' = R.blocks

\* "if all_prs:"
ShouldNotifyAlways(prs) == TRUE

ShouldNotify(prs) == prs /= <<>>

\* "all_prs.append((owner, repo, pr))"
AccumulateOverwrite(prs, owner, repo, pr) == <<<<owner, repo, pr, NoIcon>>>>

Accumulate(prs, owner, repo, pr) == Append(prs, <<owner, repo, pr, NoIcon>>)

\* after the loop over repos: "if all_prs:" calls send_pr_info, else only logs
FinishRun(prs) ==
    IF ShouldNotify(prs)
    THEN SetRender(BeginSend(prs))
    ELSE /\ pc' = "done"
         /\ j' = 0
         /\ UNCHANGED <<k, ready_prs, pending_prs, blocks>>

\* top of "for owner, repo in repos" for the ii-th repository
NextRepo(ii, prs) ==
    /\ i' = ii
    /\ IF ii > Len(repos)
       THEN /\ FinishRun(prs)
            /\ UNCHANGED checked
       ELSE /\ pc' = "list"
            /\ j' = 0
            /\ checked' = checked \cup {ii}
            /\ UNCHANGED <<k, ready_prs, pending_prs, blocks>>

\* "except Exception as e: logging.error(...); continue"
CatchAndContinue ==
    /\ errors' = errors \cup {i}
    /\ NextRepo(i + 1, all_prs)
    /\ UNCHANGED all_prs

\* an exception that nothing catches ends the program
Crash(e) ==
    /\ pc' = "crashed"
    /\ exc' = e

config == <<entry, github_token, webhook_url, environ>>
parsing == <<repos, parsed>>
reducer == <<reviews, reduced, fmt>>
render == <<k, ready_prs, pending_prs, counts, blocks>>

\* the parser of the entry point, applied to the environment
RunParse ==
    IF entry = "main" THEN parse_repos(environ.GITHUB_REPOS) ELSE copilot_parse_repos(environ)

\* the texts of the entries of a parsed list
TextsOf(list) == [n \in DOMAIN list |-> [m \in DOMAIN list[n] |-> list[n][m].s]]

\* main(): repos = parse_repos(); "if not repos: ... return".  An exception
\* of parse_repos is not caught.
ParseRepos ==
    /\ pc = "start"
    /\ parsed' = RunParse
    /\ repos' = TextsOf(RunParse.repos)
    /\ listed' = [n \in DOMAIN RunParse.repos |-> Pending]
    /\ IF RunParse.raised /= "none"
       THEN Crash(RunParse.raised)
       ELSE /\ pc' = IF RunParse.repos = <<>> THEN "done" ELSE "construct"
            /\ UNCHANGED exc
    /\ UNCHANGED <<config, reducer, render, i, j, pull_requests, all_prs, rq, posted, webhook,
                   sent, checked, errors>>

\* GithubManager() raises when GITHUB_TOKEN is missing, SlackNotifier() when
\* SLACK_WEBHOOK_URL is missing
ConstructorsRaiseTokenOnly(token, url) == ~token

ConstructorsRaise(token, url) == ~token \/ ~url

\* main(): github = GithubManager(); slack = SlackNotifier().  main.py calls
\* the constructor of lib/github_manager.py, which has two required
\* parameters, without arguments: Python raises TypeError.  The constructors
\* of github_copilot_reviewer.py raise ValueError when GITHUB_TOKEN or
\* SLACK_WEBHOOK_URL is missing.  Nothing catches either exception.
Construct ==
    /\ pc = "construct"
    /\ IF entry = "main"
       THEN /\ Crash("TypeError")
            /\ UNCHANGED <<i, j, checked, render>>
       ELSE IF ConstructorsRaise(github_token, webhook_url)
       THEN /\ Crash("ValueError")
            /\ UNCHANGED <<i, j, checked, render>>
       ELSE /\ NextRepo(1, all_prs)
            /\ UNCHANGED <<exc, counts>>
    /\ UNCHANGED <<config, parsing, reducer, pull_requests, all_prs, rq, posted, webhook, sent,
                   errors, listed>>

\* pull_requests = github.get_pull_requests(owner, repo): one HTTP attempt
FetchPullRequests ==
    /\ pc = "list"
    /\ \E o \in PullsOutcomes :
         LET r == MakeRequestStep(rq, o)
         IN /\ rq' = Frame(r)
            /\ IF r.status = "active"
               THEN UNCHANGED <<pc, i, j, pull_requests, checked, errors, listed, render>>
               ELSE IF r.status = "returned"
               THEN /\ pull_requests' = o.body
                    /\ listed' = [listed EXCEPT ![i] = [status |-> "ok", prs |-> o.body]]
                    /\ IF o.body = <<>>
                       THEN NextRepo(i + 1, all_prs)
                       ELSE /\ pc' = "reviews_acc"
                            /\ j' = 1
                            /\ UNCHANGED <<i, checked, k, ready_prs, pending_prs, blocks>>
                    /\ UNCHANGED <<errors, counts>>
               ELSE /\ listed' = [listed EXCEPT ![i] = [status |-> "failed", prs |-> <<>>]]
                    /\ errors' = errors \cup {i}
                    /\ NextRepo(i + 1, all_prs)
                    /\ UNCHANGED <<pull_requests, counts>>
    /\ UNCHANGED <<config, parsing, reducer, all_prs, posted, webhook, sent, exc>>

\* first loop over pull_requests: get_reviewer_status, then all_prs.append
AccumulatePr ==
    /\ pc = "reviews_acc"
    /\ \E o \in ReviewsOutcomes :
         LET r == MakeRequestStep(rq, o)
             prs == Accumulate(all_prs, repos[i][1], repos[i][2], pull_requests[j])
         IN /\ rq' = Frame(r)
            /\ IF r.status = "active"
               THEN UNCHANGED <<pc, i, j, all_prs, checked, errors, render>>
               ELSE IF r.status = "returned"
               THEN /\ all_prs' = prs
                    /\ IF j < Len(pull_requests)
                       THEN /\ j' = j + 1
                            /\ UNCHANGED pc
                       ELSE /\ j' = 1
                            /\ pc' = "reviews_log"
                    /\ UNCHANGED <<i, checked, errors, render>>
               ELSE /\ CatchAndContinue
                    /\ UNCHANGED counts
    /\ UNCHANGED <<config, parsing, reducer, pull_requests, posted, webhook, sent, listed, exc>>

\* second loop over pull_requests: get_reviewer_status, _format_reviewers, logging
LogPr ==
    /\ pc = "reviews_log"
    /\ \E o \in ReviewsOutcomes :
         LET r == MakeRequestStep(rq, o)
         IN /\ rq' = Frame(r)
            /\ IF r.status = "active"
               THEN UNCHANGED <<pc, i, j, checked, errors, render>>
               ELSE IF r.status = "returned"
               THEN /\ IF j < Len(pull_requests)
                       THEN /\ j' = j + 1
                            /\ UNCHANGED <<pc, i, checked, k, ready_prs, pending_prs, blocks>>
                       ELSE NextRepo(i + 1, all_prs)
                    /\ UNCHANGED <<errors, counts>>
               ELSE /\ errors' = errors \cup {i}
                    /\ NextRepo(i + 1, all_prs)
                    /\ UNCHANGED counts
    /\ UNCHANGED <<config, parsing, reducer, pull_requests, all_prs, posted, webhook, sent,
                   listed, exc>>

-----------------------------------------------------------------------------
(* send_pr_info, step by step *)

\* a direct call of SlackNotifier.send_pr_info(prs, github)
CallSendPrInfo ==
    /\ pc = "call"
    /\ SetRender(BeginSend(all_prs))
    /\ UNCHANGED <<config, parsing, reducer, i, pull_requests, all_prs, rq, counts, posted,
                   webhook, sent, checked, errors, listed, exc>>

\* "Split into ready and pending": one get_reviewer_status per pull request
PartitionPr ==
    /\ pc = "partition"
    /\ \E o \in ReviewsOutcomes :
         LET r == MakeRequestStep(rq, o)
             key == SortedKeys(all_prs)[k]
             repo_prs == Group(all_prs, key)
             e == repo_prs[j]
             approval_count == get_reviewer_status(o.body).approval_count
             rd == IF IsReady(approval_count) THEN Append(ready_prs, e) ELSE ready_prs
             pd == IF IsReady(approval_count) THEN pending_prs ELSE Append(pending_prs, e)
         IN /\ rq' = Frame(r)
            /\ IF r.status = "active"
               THEN UNCHANGED <<pc, j, exc, render>>
               ELSE IF r.status = "returned"
               THEN /\ counts' = Append(counts, [key |-> key, pr |-> e[3],
                                                 approval_count |-> approval_count])
                    /\ IF j < Len(repo_prs)
                       THEN SetRender(Render("partition", k, j + 1, rd, pd, blocks))
                       ELSE SetRender(AfterPartition(all_prs, k, blocks, rd, pd))
                    /\ UNCHANGED exc
               ELSE /\ Crash("RequestException")
                    /\ UNCHANGED <<j, render>>
    /\ UNCHANGED <<config, parsing, reducer, i, pull_requests, all_prs, posted, webhook, sent,
                   checked, errors, listed>>

\* "for owner, repo, pr in ready_prs: blocks.append(self._create_pr_block(...))"
CreateReadyBlock ==
    /\ pc = "ready"
    /\ \E o \in ReviewsOutcomes :
         LET r == MakeRequestStep(rq, o)
             bl == Append(blocks, create_pr_block(ready_prs[j], o.body))
         IN /\ rq' = Frame(r)
            /\ IF r.status = "active"
               THEN UNCHANGED <<pc, j, exc, k, ready_prs, pending_prs, blocks>>
               ELSE IF r.status = "returned"
               THEN /\ IF j < Len(ready_prs)
                       THEN SetRender(Render("ready", k, j + 1, ready_prs, pending_prs, bl))
                       ELSE SetRender(AfterReady(all_prs, k, bl, ready_prs, pending_prs))
                    /\ UNCHANGED exc
               ELSE /\ Crash("RequestException")
                    /\ UNCHANGED <<j, k, ready_prs, pending_prs, blocks>>
    /\ UNCHANGED <<config, parsing, reducer, i, pull_requests, all_prs, counts, posted, webhook,
                   sent, checked, errors, listed>>

\* "for owner, repo, pr in pending_prs: blocks.append(self._create_pr_block(...))"
CreatePendingBlock ==
    /\ pc = "pending"
    /\ \E o \in ReviewsOutcomes :
         LET r == MakeRequestStep(rq, o)
             bl == Append(blocks, create_pr_block(pending_prs[j], o.body))
         IN /\ rq' = Frame(r)
            /\ IF r.status = "active"
               THEN UNCHANGED <<pc, j, exc, k, ready_prs, pending_prs, blocks>>
               ELSE IF r.status = "returned"
               THEN /\ IF j < Len(pending_prs)
                       THEN SetRender(Render("pending", k, j + 1, ready_prs, pending_prs, bl))
                       ELSE SetRender(AfterPending(all_prs, k, bl, ready_prs, pending_prs))
                    /\ UNCHANGED exc
               ELSE /\ Crash("RequestException")
                    /\ UNCHANGED <<j, k, ready_prs, pending_prs, blocks>>
    /\ UNCHANGED <<config, parsing, reducer, i, pull_requests, all_prs, counts, posted, webhook,
                   sent, checked, errors, listed>>

\* what requests.post can produce: a response with a status code, or a
\* transport error (a RequestException) and no response
Response(status) == [err |-> "none", status |-> status]
Transport(e) == [err |-> e, status |-> 0]
WebhookAnswers ==
    {Response(200), Response(302), Response(500), Transport("ConnectionError")}

\* response.raise_for_status(): HTTPError for the 4xx and 5xx status codes
RaisesForStatus(status) == status >= 400 /\ status < 600

\* the value send_pr_info returns: True unless requests.post or
\* raise_for_status raised the RequestException that the except clause catches
SendResultAlwaysTrue(answer) == "true"

SendResult(answer) ==
    IF answer.err /= "none" \/ RaisesForStatus(answer.status) THEN "false" ELSE "true"

\* requests.post(self.webhook_url, json=message, ...): a single attempt;
\* a RequestException is caught and turned into the return value False
PostMessage ==
    /\ pc = "post"
    /\ \E answer \in WebhookAnswers :
         /\ posted' = Append(posted, Message(entry, blocks))
         /\ webhook' = Append(webhook, answer)
         /\ sent' = SendResult(answer)
    /\ pc' = "done"
    /\ UNCHANGED <<config, parsing, reducer, render, i, j, pull_requests, all_prs, rq, checked,
                   errors, listed, exc>>

-----------------------------------------------------------------------------
(* The review reducer applied to a given sequence of review events *)

Reduce ==
    /\ pc = "reduce"
    /\ reduced' = get_reviewer_status(reviews)
    /\ pc' = "reduced"
    /\ UNCHANGED <<config, parsing, render, reviews, fmt, i, j, pull_requests, all_prs, rq,
                   posted, webhook, sent, checked, errors, listed, exc>>

-----------------------------------------------------------------------------
(* One call of _make_request on its own: get_pull_requests or get_pr_reviews *)

MakeRequest ==
    /\ pc \in {"get_pull_requests", "get_pr_reviews"}
    /\ \E o \in IF pc = "get_pull_requests" THEN PullsOutcomes ELSE AnyReviewsOutcomes :
         LET r == MakeRequestStep(rq, o)
         IN /\ rq' = r
            /\ pc' = IF r.status = "active" THEN pc ELSE r.status
    /\ UNCHANGED <<config, parsing, reducer, render, i, j, pull_requests, all_prs, posted,
                   webhook, sent, checked, errors, listed, exc>>

-----------------------------------------------------------------------------
(* _format_reviewers applied to given arguments *)

FormatReviewers ==
    /\ pc = "format"
    /\ fmt' = [fmt EXCEPT !.out = format_reviewers(fmt.requested_reviewers,
                                                   fmt.reviewer_status)]
    /\ pc' = "formatted"
    /\ UNCHANGED <<config, parsing, render, reviews, reduced, i, j, pull_requests, all_prs, rq,
                   posted, webhook, sent, checked, errors, listed, exc>>

-----------------------------------------------------------------------------
(* The configuration parsers applied to a given GITHUB_REPOS *)

ParseReposLib ==
    /\ pc = "parse"
    /\ parsed' = lib_parse_repos(environ.GITHUB_REPOS)
    /\ pc' = "_parse_repos"
    /\ UNCHANGED <<config, repos, reducer, render, i, j, pull_requests, all_prs, rq, posted,
                   webhook, sent, checked, errors, listed, exc>>

ParseReposMain ==
    /\ pc = "parse"
    /\ parsed' = parse_repos(environ.GITHUB_REPOS)
    /\ pc' = "parse_repos"
    /\ UNCHANGED <<config, repos, reducer, render, i, j, pull_requests, all_prs, rq, posted,
                   webhook, sent, checked, errors, listed, exc>>

-----------------------------------------------------------------------------
(* Specifications *)

\* the configured repositories are distinct, in any order
Configs == {s \in SeqsUpTo(RepoRefs, MaxRepos) : NoDup(s)}

IconOf(owner) == IF owner = <<97>> THEN <<58, 97, 58>> ELSE <<58, 98, 58>>

\* the entries a configuration text is written from: a well-formed entry, a
\* JSON object without "icon", a JSON string, a segment of two parts, a
\* segment without "/", a well-formed segment between spaces
EntryKinds == {"object", "no_icon", "string", "three", "two", "one", "padded"}
JsonKinds == {"object", "no_icon", "string"}
DelimiterKinds == {"three", "two", "one", "padded"}

ParseRefs == {<<<<97>>, <<120>>, <<58, 97, 58>>>>, <<<<98>>, <<121>>, <<58, 98, 58>>>>}

Entries(kinds) == [kind : kinds, ref : ParseRefs]

RECURSIVE Join(_, _)
Join(texts, sep) ==
    IF texts = <<>> THEN <<>>
    ELSE IF Len(texts) = 1 THEN texts[1]
    ELSE texts[1] \o sep \o Join(Tail(texts), sep)

Quoted(text) == <<34>> \o text \o <<34>>

\* "key": "text"
Member(key, text) == Quoted(key) \o <<58, 32>> \o Quoted(text)

\* the text of one entry
EntryText(e) ==
    LET owner == Member(<<111, 119, 110, 101, 114>>, e.ref[1])
        repo == Member(<<114, 101, 112, 111>>, e.ref[2])
        icon == Member(<<105, 99, 111, 110>>, e.ref[3])
        path == e.ref[1] \o <<47>> \o e.ref[2]
    IN CASE e.kind = "object" -> <<123>> \o Join(<<owner, repo, icon>>, <<44, 32>>) \o <<125>>
         [] e.kind = "no_icon" -> <<123>> \o Join(<<owner, repo>>, <<44, 32>>) \o <<125>>
         [] e.kind = "string" -> Quoted(e.ref[1])
         [] e.kind = "three" -> path \o <<47>> \o e.ref[3]
         [] e.kind = "two" -> path
         [] e.kind = "one" -> e.ref[1]
         [] e.kind = "padded" -> <<32>> \o path \o <<47>> \o e.ref[3] \o <<32>>

\* a JSON array of the entries, as json.dumps writes it
JsonText(es) == <<91>> \o Join([n \in DOMAIN es |-> EntryText(es[n])], <<44, 32>>) \o <<93>>

\* the entries separated by ","
DelimiterText(es) == Join([n \in DOMAIN es |-> EntryText(es[n])], <<44>>)

TextOf(es) ==
    IF es /= <<>> /\ es[1].kind \in JsonKinds THEN JsonText(es) ELSE DelimiterText(es)

\* valid JSON documents that are no list: {"a": ["x"]}, 7, "a/x/:a:", null,
\* and "a/x/:a:,b/y/:b:"
NotListTexts ==
    {<<123>> \o Quoted(<<97>>) \o <<58, 32, 91>> \o Quoted(<<120>>) \o <<93, 125>>,
     <<55>>,
     Quoted(<<97, 47, 120, 47, 58, 97, 58>>),
     <<110, 117, 108, 108>>,
     Quoted(<<97, 47, 120, 47, 58, 97, 58, 44, 98, 47, 121, 47, 58, 98, 58>>)}

\* a configuration written as entries of one kind
ConfigEntries(s, kind) ==
    [n \in DOMAIN s |-> [kind |-> kind, ref |-> <<s[n][1], s[n][2], IconOf(s[n][1])>>]]

GithubRepos(x) == [NoEnviron EXCEPT !.GITHUB_REPOS = x]

\* GITHUB_REPOS of a run of main.py: each configuration as "owner/repo/icon"
\* segments, one as a JSON array, and texts with a malformed entry; or unset
MainEnvirons ==
    {GithubRepos(Set(TextOf(ConfigEntries(s, "three")))) : s \in Configs}
        \cup {GithubRepos(Set(TextOf(ConfigEntries(<<<<<<97>>, <<120>>>>>>, kind)))) :
                    kind \in {"object", "no_icon", "two", "one"}}
        \cup {GithubRepos(Unset)}

\* the environment of a run of github_copilot_reviewer.py: each configuration
\* as "owner/repo" segments, one as a JSON array, one as a JSON object, texts
\* without valid entry, and GITHUB_OWNER with GITHUB_REPO when GITHUB_REPOS is
\* not set
CopilotEnvirons ==
    {GithubRepos(Set(TextOf(ConfigEntries(s, "two")))) : s \in Configs}
        \cup {GithubRepos(Set(TextOf(ConfigEntries(<<<<<<97>>, <<120>>>>>>, kind)))) :
                    kind \in {"no_icon", "three", "one"}}
        \cup {GithubRepos(Set(t)) : t \in NotListTexts}
        \cup {GithubRepos(Unset),
              [NoEnviron EXCEPT !.GITHUB_OWNER = Set(<<97>>), !.GITHUB_REPO = Set(<<120>>)],
              [NoEnviron EXCEPT !.GITHUB_OWNER = Set(<<97>>)]}

\* the prs of a direct call: distinct pull requests, in any order
DirectInputs ==
    {s \in SeqsUpTo({<<r[1], r[2], p, c>> : r \in RepoRefs, p \in PullRequests, c \in Icons},
                    MaxDirect) :
        NoDup([n \in DOMAIN s |-> <<s[n][1], s[n][2], s[n][3]>>])}

Idle ==
    /\ i = 0
    /\ j = 0
    /\ pull_requests = <<>>
    /\ rq = IdleRq
    /\ k = 0
    /\ ready_prs = <<>>
    /\ pending_prs = <<>>
    /\ counts = <<>>
    /\ blocks = <<>>
    /\ posted = <<>>
    /\ webhook = <<>>
    /\ sent = "none"
    /\ checked = {}
    /\ errors = {}
    /\ exc = "none"

InitRun ==
    /\ entry \in {"main", "copilot"}
    /\ github_token \in BOOLEAN
    /\ webhook_url \in BOOLEAN
    /\ environ \in IF entry = "main" THEN MainEnvirons ELSE CopilotEnvirons
    /\ pc = "start"
    /\ all_prs = <<>>

InitDirect ==
    /\ entry = "send_pr_info"
    /\ github_token = TRUE
    /\ webhook_url = TRUE
    /\ environ = NoEnviron
    /\ pc = "call"
    /\ all_prs \in DirectInputs

Init ==
    /\ InitRun \/ InitDirect
    /\ Idle
    /\ repos = <<>>
    /\ listed = <<>>
    /\ reviews = <<>>
    /\ reduced = get_reviewer_status(<<>>)
    /\ fmt = NoFmt
    /\ parsed = NotParsed

Next ==
    \/ ParseRepos
    \/ Construct
    \/ FetchPullRequests
    \/ AccumulatePr
    \/ LogPr
    \/ CallSendPrInfo
    \/ PartitionPr
    \/ CreateReadyBlock
    \/ CreatePendingBlock
    \/ PostMessage

Spec == Init /\ [][Next]_vars

InitReduce ==
    /\ entry = "get_reviewer_status"
    /\ github_token = TRUE
    /\ webhook_url = TRUE
    /\ repos = <<>>
    /\ pc = "reduce"
    /\ all_prs = <<>>
    /\ Idle
    /\ listed = <<>>
    /\ reviews \in SeqsUpTo(ReviewEvents, MaxReviews)
    /\ reduced = get_reviewer_status(<<>>)
    /\ fmt = NoFmt
    /\ environ = NoEnviron
    /\ parsed = NotParsed

NextReduce == Reduce

SpecReduce == InitReduce /\ [][NextReduce]_vars

InitRetry ==
    /\ entry = "_make_request"
    /\ github_token = TRUE
    /\ webhook_url = TRUE
    /\ repos = <<>>
    /\ pc \in {"get_pull_requests", "get_pr_reviews"}
    /\ all_prs = <<>>
    /\ Idle
    /\ listed = <<>>
    /\ reviews = <<>>
    /\ reduced = get_reviewer_status(<<>>)
    /\ fmt = NoFmt
    /\ environ = NoEnviron
    /\ parsed = NotParsed

NextRetry == MakeRequest

SpecRetry == InitRetry /\ [][NextRetry]_vars

-----------------------------------------------------------------------------
(* Properties of the HTTP Retry Client, checked under SpecRetry *)

\* C1: a call of _make_request makes at most 3 HTTP attempts; the delay slept
\* before attempt k (k = 2, 3) is 5 * (k - 1), that is 5 then 10; nothing is
\* slept before attempt 1 or after the final attempt.
C1_RetryBackoff ==
    /\ Len(rq.outcomes) <= 3
    /\ \A n \in DOMAIN rq.sleeps : rq.sleeps[n] = 5 * n
    /\ rq.status = "active" => Len(rq.sleeps) = Len(rq.outcomes)
    /\ rq.status \in {"returned", "raised"} => Len(rq.sleeps) = Len(rq.outcomes) - 1

C1_Witness ==
    /\ rq.status = "returned"
    /\ Len(rq.outcomes) = 3
    /\ rq.sleeps = <<5, 10>>

\* C2: a call returns the response of its first successful attempt and makes
\* no attempt after it; it fails if and only if 3 attempts failed, and the
\* failure it raises is the failure of the 3rd attempt.
C2_FirstSuccessOrLastFailure ==
    LET n == Len(rq.outcomes)
        failedBefore(m) == \A a \in 1..(m - 1) : ~rq.outcomes[a].ok
    IN /\ rq.status = "returned" =>
            /\ rq.outcomes[n].ok
            /\ failedBefore(n)
            /\ rq.result = rq.outcomes[n]
       /\ rq.status = "raised" =>
            /\ n = 3
            /\ failedBefore(n + 1)
            /\ rq.result = rq.outcomes[3]
       /\ rq.status = "active" =>
            /\ n < 3
            /\ failedBefore(n + 1)

C2_Witness ==
    /\ rq.status = "raised"
    /\ rq.outcomes[1].err /= rq.outcomes[3].err
    /\ rq.outcomes[2].err /= rq.outcomes[3].err

-----------------------------------------------------------------------------
(* Properties of the Review Reducer, checked under SpecReduce *)

Permuted(rs) == {[n \in DOMAIN rs |-> rs[f[n]]] : f \in Permutations(DOMAIN rs)}

ApprovedEvents(rs) == {n \in DOMAIN rs : rs[n].state = "APPROVED"}

\* C8: the approval count returned for a sequence of review events is the
\* number of its events whose state is APPROVED, repeated approvals of one
\* reviewer counted each time, and is the same for every permutation of it.
C8_ApprovalCount ==
    pc = "reduced" =>
        /\ reduced.approval_count = Cardinality(ApprovedEvents(reviews))
        /\ \A p \in Permuted(reviews) :
                get_reviewer_status(p).approval_count = reduced.approval_count

C8_Witness ==
    /\ pc = "reduced"
    /\ reduced.approval_count = 2
    /\ \E a, b \in ApprovedEvents(reviews) : a /= b /\ reviews[a].user = reviews[b].user

EventsOf(rs, u) == {n \in DOMAIN rs : rs[n].user = u}

\* the events of u that no other event of u exceeds in submitted_at
LatestOf(rs, u) ==
    {n \in EventsOf(rs, u) :
        \A m \in EventsOf(rs, u) : ~StrLess(rs[n].submitted_at, rs[m].submitted_at)}

FirstOf(S) == CHOOSE n \in S : \A m \in S : n <= m

\* C9: the reviewer-status mapping has exactly the reviewers of the sequence
\* as keys; a reviewer's entry is that reviewer's event with the greatest
\* submitted_at, and of several events sharing the greatest submitted_at it
\* is the first in input order.
C9_LatestStatus ==
    pc = "reduced" =>
        /\ DOMAIN reduced.reviewer_status = {reviews[n].user : n \in DOMAIN reviews}
        /\ \A u \in DOMAIN reduced.reviewer_status :
                LET e == reviews[FirstOf(LatestOf(reviews, u))]
                IN reduced.reviewer_status[u] =
                        [state |-> e.state, submitted_at |-> e.submitted_at]

\* a later event ties with the reviewer's greatest submitted_at but has another
\* state, and an event with a smaller submitted_at comes last
C9_Witness ==
    /\ pc = "reduced"
    /\ Len(reviews) = 3
    /\ \E u \in Logins :
        /\ EventsOf(reviews, u) = {1, 2, 3}
        /\ LatestOf(reviews, u) = {1, 2}
        /\ reviews[1].state /= reviews[2].state

-----------------------------------------------------------------------------
(* Properties of the Orchestrator, checked under Spec *)

Range(s) == {s[n] : n \in DOMAIN s}

IsRun == entry \in {"main", "copilot"}

\* the entries of all_prs that belong to the n-th configured repository
EntriesOf(n) ==
    {m \in DOMAIN all_prs : all_prs[m][1] = repos[n][1] /\ all_prs[m][2] = repos[n][2]}

\* C3: a source-host call that fails after its retries never aborts a run: no
\* run ends with the request failure unhandled, also not while the report is
\* rendered, and a run that ends has processed every configured repository.
C3_HostFailureNeverAborts ==
    IsRun =>
        /\ exc /= "RequestException"
        /\ pc \in {"done", "crashed"} /\ checked /= {} => checked = DOMAIN repos

\* C4: no pull request of a repository whose pull-request list call failed
\* after its retries is in the accumulated set, and every pull request of a
\* processed repository all of whose calls succeeded is in it.
C4_FailedListOmitted ==
    IsRun =>
        \A n \in DOMAIN listed :
            /\ listed[n].status = "failed" => EntriesOf(n) = {}
            /\ listed[n].status = "ok" /\ n \notin errors /\ n < i =>
                    \A p \in Range(listed[n].prs) :
                        \E m \in EntriesOf(n) : all_prs[m][3] = p

C4_Witness ==
    /\ entry = "copilot"
    /\ pc = "done"
    /\ \E n, m \in DOMAIN listed :
        /\ listed[n].status = "failed"
        /\ listed[m].status = "ok"
        /\ Len(listed[m].prs) = 2
        /\ m \notin errors

\* C5: none of the pull requests of a repository whose processing raised
\* (a list call or a review call failed after its retries) is in the
\* accumulated set.
C5_RaisedRepositoryOmitted ==
    IsRun => \A n \in errors : EntriesOf(n) = {}

\* C6: a run whose accumulated set is empty never invokes the notifier and
\* POSTs nothing; send_pr_info called with an empty set builds a message of
\* exactly one block, the "no open PRs found" block.
C6_EmptySetNoNotify ==
    /\ IsRun /\ all_prs = <<>> => posted = <<>> /\ sent = "none" /\ blocks = <<>>
    /\ entry = "send_pr_info" /\ all_prs = <<>> /\ pc \in {"post", "done"} =>
            Len(blocks) = 1 /\ blocks[1].kind = "no_prs"

C6_Witness ==
    /\ entry = "copilot"
    /\ pc = "done"
    /\ all_prs = <<>>
    /\ listed = <<[status |-> "failed", prs |-> <<>>], [status |-> "ok", prs |-> <<>>]>>

\* C7: the renderer and notifier are invoked once per run and only after
\* every configured repository was processed; a run that accumulated at
\* least one pull request ends with exactly one message POSTed.
C7_ExactlyOnePost ==
    IsRun =>
        /\ Len(posted) <= 1
        /\ posted /= <<>> \/ pc \in {"partition", "ready", "pending", "post"} =>
                i > Len(repos) /\ checked = DOMAIN repos
        /\ pc \in {"done", "crashed"} /\ all_prs /= <<>> => Len(posted) = 1

\* the repository list is absent, empty, or yields no valid entry: what the
\* parser makes of the environment, before and after the run has called it
NoValidEntry ==
    LET r == IF pc = "start" THEN RunParse ELSE parsed
    IN r.raised /= "none" \/ r.repos = <<>>

InvalidConfiguration == ~github_token \/ ~webhook_url \/ NoValidEntry

\* C16: a run whose configuration is missing or invalid (no access token, no
\* webhook URL, or a repository list that is absent, empty or without valid
\* entry) never issues an HTTP request: it never enters the loop over the
\* repositories, calls neither the source host nor the webhook, and is
\* either before its first call or terminated.
C16_InvalidConfigNoRequest ==
    IsRun /\ InvalidConfiguration =>
        /\ pc \in {"start", "construct", "done", "crashed"}
        /\ rq = IdleRq
        /\ checked = {}
        /\ \A n \in DOMAIN listed : listed[n] = Pending
        /\ posted = <<>>
        /\ webhook = <<>>
        /\ all_prs = <<>>

\* repositories and token are configured, the webhook URL is missing: the
\* run ended in the constructor of the notifier
C16_Witness ==
    /\ entry = "copilot"
    /\ github_token
    /\ ~webhook_url
    /\ Len(repos) = 2
    /\ pc = "crashed"
    /\ exc = "ValueError"
    /\ checked = {}

\* C15: the notifier POSTs a message once and never again, whatever the
\* answer; the call returns true when the response has a 2xx status, false
\* when the POST fails in transport or the response has a 4xx or 5xx status,
\* and in each case it returns: the run ends without unhandled failure.
C15_SinglePostNoRaise ==
    /\ Len(posted) <= 1
    /\ Len(webhook) = Len(posted)
    /\ posted /= <<>> =>
        LET answer == webhook[1]
        IN /\ pc = "done"
           /\ exc = "none"
           /\ answer.err = "none" /\ answer.status \in 200..299 => sent = "true"
           /\ answer.err /= "none" \/ answer.status \in 400..599 => sent = "false"

\* a run whose single POST met a transport error, and ended normally
C15_Witness ==
    /\ entry = "copilot"
    /\ pc = "done"
    /\ Len(posted) = 1
    /\ webhook = <<Transport("ConnectionError")>>
    /\ sent = "false"

-----------------------------------------------------------------------------
(* Properties of the rendered report, checked under Spec *)

Rendered == pc \in {"post", "done"} /\ all_prs /= <<>> /\ blocks /= <<>>

IsGroupBlock(b) == b.kind \in {"compact", "expanded", "none"}

\* the index of the first block after index h that is no block of a group
GroupEnd(bl, h) ==
    CHOOSE n \in (h + 1)..(Len(bl) + 1) :
        /\ n <= Len(bl) => ~IsGroupBlock(bl[n])
        /\ \A m \in (h + 1)..(n - 1) : IsGroupBlock(bl[m])

GroupAfter(bl, h) == SubSeq(bl, h + 1, GroupEnd(bl, h) - 1)

SectionsOf(bl, key) == {n \in DOMAIN bl : bl[n].kind = "repository" /\ bl[n].key = key}

SectionOf(bl, key) == CHOOSE n \in SectionsOf(bl, key) : TRUE

ReadyGroup(bl, key) == GroupAfter(bl, SectionOf(bl, key) + 1)

PendingHeadingOf(bl, key) == GroupEnd(bl, SectionOf(bl, key) + 1)

PendingGroup(bl, key) == GroupAfter(bl, PendingHeadingOf(bl, key))

Occurrences(g, pr) == Cardinality({n \in DOMAIN g : g[n].kind /= "none" /\ g[n].pr = pr})

GroupWellFormed(g) ==
    \/ g = <<NoneBlock>>
    \/ g /= <<>> /\ \A n \in DOMAIN g : g[n].kind /= "none"

\* the approval count the split computed for an accumulated pull request
CountOf(e) ==
    (CHOOSE c \in Range(counts) : c.key = Key(e[1], e[2]) /\ c.pr = e[3]).approval_count

\* C10: in a rendered report every accumulated pull request is in exactly one
\* of the two groups of its repository's section: in "Ready for Merge" if and
\* only if its approval count is >= 2, otherwise in "Pending Reviews"; a group
\* without pull request is the single "None" block.
C10_ReadyIffTwoApprovals ==
    Rendered =>
        \A n \in DOMAIN all_prs :
            LET e == all_prs[n]
                key == Key(e[1], e[2])
                s == SectionOf(blocks, key)
                h == PendingHeadingOf(blocks, key)
                rg == ReadyGroup(blocks, key)
                pg == PendingGroup(blocks, key)
            IN /\ Cardinality(SectionsOf(blocks, key)) = 1
               /\ blocks[s + 1].kind = "ready_heading"
               /\ blocks[h].kind = "pending_heading"
               /\ GroupWellFormed(rg)
               /\ GroupWellFormed(pg)
               /\ IF CountOf(e) >= 2
                  THEN Occurrences(rg, e[3]) = 1 /\ Occurrences(pg, e[3]) = 0
                  ELSE Occurrences(rg, e[3]) = 0 /\ Occurrences(pg, e[3]) = 1

C10_Witness ==
    /\ Rendered
    /\ entry = "copilot"
    /\ \E a, b \in DOMAIN all_prs :
        /\ all_prs[a][1] = all_prs[b][1]
        /\ CountOf(all_prs[a]) = 2
        /\ CountOf(all_prs[b]) = 1
    /\ \E c \in DOMAIN all_prs :
        /\ ReadyGroup(blocks, Key(all_prs[c][1], all_prs[c][2])) = <<NoneBlock>>

\* the keys of the repository sections, in the order of the report
SectionKeys(bl) ==
    LET secs == SelectSeq(bl, LAMBDA b : b.kind = "repository")
    IN [n \in DOMAIN secs |-> secs[n].key]

\* the position in the accumulated input of a pull request of a repository
PositionOf(prs, key, pr) ==
    CHOOSE n \in DOMAIN prs : Key(prs[n][1], prs[n][2]) = key /\ prs[n][3] = pr

OrderPreserved(g, key) ==
    \A m, n \in DOMAIN g :
        m < n /\ g[m].kind /= "none" =>
            PositionOf(all_prs, key, g[m].pr) < PositionOf(all_prs, key, g[n].pr)

\* C12: in a rendered report the repository sections are in strictly
\* ascending order of the string "owner/repo", there is one section for each
\* distinct "owner/repo" of the accumulated input and none else, and within
\* the ready group and within the pending group of a section the pull
\* requests are in the relative order they have in the accumulated input.
C12_SectionsSortedOrderKept ==
    Rendered =>
        LET keys == SectionKeys(blocks)
        IN /\ \A m, n \in DOMAIN keys : m < n => StrLess(keys[m], keys[n])
           /\ {keys[n] : n \in DOMAIN keys} = KeysOf(all_prs)
           /\ \A key \in KeysOf(all_prs) :
                /\ OrderPreserved(ReadyGroup(blocks, key), key)
                /\ OrderPreserved(PendingGroup(blocks, key), key)

\* the repositories were accumulated in descending order of their keys, and
\* a group holds pull request 2 before pull request 1
C12_Witness ==
    /\ Rendered
    /\ entry = "copilot"
    /\ \E a, b \in DOMAIN all_prs :
        /\ a < b
        /\ StrLess(Key(all_prs[b][1], all_prs[b][2]), Key(all_prs[a][1], all_prs[a][2]))
    /\ Len(SectionKeys(blocks)) = 2
    /\ \E key \in KeysOf(all_prs) :
        LET g == PendingGroup(blocks, key)
        IN Len(g) = 2 /\ g[1].pr.number = 2 /\ g[2].pr.number = 1

\* C17: in a rendered report every block under "Ready for Merge" is the
\* compact block and every block under "Pending Reviews" is the expanded
\* block, whatever the host answered to the review fetch of the split and to
\* the review fetch of _create_pr_block for the same pull request.
C17_GroupAndFormAgree ==
    Rendered =>
        \A key \in KeysOf(all_prs) :
            /\ \A n \in DOMAIN ReadyGroup(blocks, key) :
                    ReadyGroup(blocks, key)[n].kind \in {"compact", "none"}
            /\ \A n \in DOMAIN PendingGroup(blocks, key) :
                    PendingGroup(blocks, key)[n].kind \in {"expanded", "none"}

-----------------------------------------------------------------------------
(* _format_reviewers on its own *)

\* "a", "b", "c"
FormatLogins == {<<97>>, <<98>>, <<99>>}

RequestedReviewers == SeqsUpTo([login : FormatLogins], MaxRequested)

ReviewerStatuses ==
    UNION {[D -> [state : {"APPROVED", "COMMENTED"}, submitted_at : {<<49>>}]] :
            D \in SUBSET FormatLogins}

InitFormat ==
    /\ entry = "_format_reviewers"
    /\ github_token = TRUE
    /\ webhook_url = TRUE
    /\ repos = <<>>
    /\ pc = "format"
    /\ all_prs = <<>>
    /\ Idle
    /\ listed = <<>>
    /\ reviews = <<>>
    /\ reduced = get_reviewer_status(<<>>)
    /\ environ = NoEnviron
    /\ parsed = NotParsed
    /\ \E rr \in RequestedReviewers, st \in ReviewerStatuses :
            fmt = [NoFmt EXCEPT !.requested_reviewers = rr, !.reviewer_status = st]

NextFormat == FormatReviewers

SpecFormat == InitFormat /\ [][NextFormat]_vars

RequestedNames == {fmt.requested_reviewers[n].login : n \in DOMAIN fmt.requested_reviewers}

\* C11: _format_reviewers outputs one line per login of the union of the
\* requested reviewers and the reviewers with a status; every requested
\* reviewer comes before every other one, each of the two groups ascends in
\* the order of the login strings, a login in both is listed once, among the
\* requested; a login without review shows the PENDING status; the empty
\* union gives exactly "No reviewers assigned".
C11_FormatReviewers ==
    pc = "formatted" =>
        LET lines == fmt.out.lines
            union == RequestedNames \cup DOMAIN fmt.reviewer_status
        IN /\ {lines[n].login : n \in DOMAIN lines} = union
           /\ Len(lines) = Cardinality(union)
           /\ \A m, n \in DOMAIN lines : m < n =>
                \/ lines[m].login \in RequestedNames /\ lines[n].login \notin RequestedNames
                \/ /\ (lines[m].login \in RequestedNames) = (lines[n].login \in RequestedNames)
                   /\ StrLess(lines[m].login, lines[n].login)
           /\ \A n \in DOMAIN lines :
                lines[n].login \notin DOMAIN fmt.reviewer_status =>
                    lines[n].emoji = ":hourglass:"
           /\ union = {} => fmt.out.literal = "No reviewers assigned" /\ lines = <<>>
           /\ union /= {} => fmt.out.literal = ""

\* "c" and "b" are requested, "a" and "b" have reviewed: b, c (pending), a
C11_Witness ==
    /\ pc = "formatted"
    /\ Len(fmt.out.lines) = 3
    /\ fmt.out.lines[1].login \in DOMAIN fmt.reviewer_status
    /\ fmt.out.lines[2].emoji = ":hourglass:"
    /\ fmt.out.lines[3].login = <<97>>

-----------------------------------------------------------------------------
(* The configuration parsers on their own *)

EntryLists == SeqsUpTo(Entries(JsonKinds), MaxEntries) \cup SeqsUpTo(Entries(DelimiterKinds), MaxEntries)

\* "[]", and text that starts with U+FEFF
OtherTexts ==
    {<<91, 93>>, <<65279>> \o JsonText(<<[kind |-> "object", ref |-> <<<<97>>, <<120>>, <<58, 97, 58>>>>]>>)}

ParseInputs ==
    {Unset} \cup {Set(TextOf(es)) : es \in EntryLists} \cup {Set(t) : t \in NotListTexts \cup OtherTexts}

InitParse ==
    /\ entry = "parse_repos"
    /\ github_token = TRUE
    /\ webhook_url = TRUE
    /\ repos = <<>>
    /\ pc = "parse"
    /\ all_prs = <<>>
    /\ Idle
    /\ listed = <<>>
    /\ reviews = <<>>
    /\ reduced = get_reviewer_status(<<>>)
    /\ fmt = NoFmt
    /\ \E x \in ParseInputs : environ = [NoEnviron EXCEPT !.GITHUB_REPOS = x]
    /\ parsed = NotParsed

NextParse == ParseReposLib \/ ParseReposMain

SpecParse == InitParse /\ [][NextParse]_vars

Parsed == pc \in {"_parse_repos", "parse_repos"}

\* the document GITHUB_REPOS holds, when it is valid JSON
Document == JsonLoads(environ.GITHUB_REPOS.val)

IsNotListDocument ==
    environ.GITHUB_REPOS.set /\ Document.ok /\ Document.v.t /= "list"

\* the delimiter parsing of each parser, applied to the text of GITHUB_REPOS
DelimiterResult ==
    IF pc = "_parse_repos"
    THEN DelimiterParse(DecodeUtf8Sig(Strip(environ.GITHUB_REPOS.val)))
    ELSE DelimiterParseMain(environ.GITHUB_REPOS.val)

\* C13, as stated: when GITHUB_REPOS is valid JSON whose value is no list,
\* the parser's result is the result of delimiter parsing of the same text.
C13_NotListFallsThrough ==
    Parsed /\ IsNotListDocument => parsed = DelimiterResult

\* C13, amended: when GITHUB_REPOS is valid JSON whose value is no list, the
\* parser returns the empty list and raises nothing, also where delimiter
\* parsing of the same text yields entries.
C13_NotListIsEmpty ==
    Parsed /\ IsNotListDocument => parsed = Returned(<<>>)

\* the JSON string "a/x/:a:", whose delimiter parsing yields an entry
C13_Witness ==
    /\ pc = "_parse_repos"
    /\ IsNotListDocument
    /\ Document.v.t = "str"
    /\ DelimiterResult.repos /= <<>>
    /\ parsed = Returned(<<>>)

IsWellFormed(e) == e.kind \in {"object", "three", "padded"}

\* the well-formed entries of a list of entries, as triples, in their order
WellFormed(es) ==
    LET wf == SelectSeq(es, IsWellFormed)
    IN [n \in DOMAIN wf |-> <<JStr(wf[n].ref[1]), JStr(wf[n].ref[2]), JStr(wf[n].ref[3])>>]

\* C14: whatever entries GITHUB_REPOS is written from, parsing raises nothing
\* and returns exactly the well-formed ones as (owner, repo, icon), in order:
\* an array entry that is no object or lacks a key, and a segment that does
\* not split into three parts, is skipped.
C14_MalformedEntrySkipped ==
    Parsed =>
        \A es \in EntryLists :
            environ.GITHUB_REPOS = Set(TextOf(es)) => parsed = Returned(WellFormed(es))

====
